---------------------------- MODULE Spec2Model ----------------------------
(***************************************************************************)
(* A model of detector_rahul_kumar.py: the PII classifier process_record,  *)
(* the masker mask_pii_value and the CSV driver main.                      *)
(*                                                                         *)
(* Text is modelled character by character: a Python str is a sequence of  *)
(* one-character strings, so that substring tests, regular expressions,    *)
(* slicing, split(), upper(), str() and the JSON codec are computed as the *)
(* code computes them.  The alphabet of the texts is the ASCII letters and  *)
(* digits, the space and ASCII punctuation; integers are kept as their     *)
(* decimal digits, since a phone or Aadhaar number exceeds 32 bits.        *)
(*                                                                         *)
(* Spec runs one call of process_record or of mask_pii_value on an input   *)
(* drawn from bounded sets; SpecMain runs main over a bounded input file.  *)
(***************************************************************************)
EXTENDS Integers, Sequences, FiniteSets, TLC

VARIABLES
    pc,              \* which call is in progress in the function-level runs
    data_dict,       \* process_record: the argument
    is_pii,          \* process_record: the returned flag
    redacted_dict,   \* process_record: the returned dictionary
    keys_to_redact,  \* process_record: the set of flagged keys
    key,             \* mask_pii_value: the argument key
    value,           \* mask_pii_value: the argument value
    masked,          \* mask_pii_value: the returned string
    input_exists,    \* main: whether open(input_file) finds the file
    columns,         \* main: the header of the input CSV
    rows,            \* main: the rows of the input CSV (csv.DictReader)
    next_row,        \* main: index of the next row the reader yields
    output,          \* main: the rows written so far (csv.DictWriter)
    status           \* main: where the driver is

vars == <<pc, data_dict, is_pii, redacted_dict, keys_to_redact, key, value,
          masked, input_exists, columns, rows, next_row, output, status>>

coreVars == <<pc, data_dict, is_pii, redacted_dict, keys_to_redact, key,
              value, masked>>

mainVars == <<input_exists, columns, rows, next_row, output, status>>

---------------------------------------------------------------------------
(* Characters.                                                             *)

LowerSeq == <<"a", "b", "c", "d", "e", "f", "g", "h", "i", "j", "k", "l", "m", "n", "o", "p", "q", "r", "s", "t", "u", "v", "w", "x", "y", "z">>

UpperSeq == <<"A", "B", "C", "D", "E", "F", "G", "H", "I", "J", "K", "L", "M", "N", "O", "P", "Q", "R", "S", "T", "U", "V", "W", "X", "Y", "Z">>

DigitSeq == <<"0", "1", "2", "3", "4", "5", "6", "7", "8", "9">>

Range(s) == {s[i] : i \in 1..Len(s)}

IsLower(c) == c \in Range(LowerSeq)

IsUpper(c) == c \in Range(UpperSeq)

IsDigit(c) == c \in Range(DigitSeq)

\* Python's str.isspace on the characters of the model's alphabet.
IsSpace(c) == c = " "

\* The regular expression class \w (letters, digits, underscore).
IsWord(c) == IsLower(c) \/ IsUpper(c) \/ IsDigit(c) \/ c = "_"

\* One character of str.upper().
UpperChar(c) ==
    IF IsLower(c) THEN UpperSeq[CHOOSE i \in 1..Len(LowerSeq) : LowerSeq[i] = c]
    ELSE c

\* str.upper()
Upper(s) == [i \in 1..Len(s) |-> UpperChar(s[i])]

\* 'X' * n
Rep(c, n) == [i \in 1..n |-> c]

\* sub in s
Contains(s, sub) ==
    \E i \in 0..(Len(s) - Len(sub)) : SubSeq(s, i + 1, i + Len(sub)) = sub

\* The regular expression assertion \b at offset p of s (between s[p] and
\* s[p+1], with 0 the start and Len(s) the end).
WordBoundary(s, p) ==
    LET left == p >= 1 /\ IsWord(s[p])
        right == p < Len(s) /\ IsWord(s[p + 1])
    IN left # right

---------------------------------------------------------------------------
(* String literals of the source.                                          *)

S_upi_id == <<"u", "p", "i", "_", "i", "d">>

S_phone == <<"p", "h", "o", "n", "e">>

S_aadhar == <<"a", "a", "d", "h", "a", "r">>

S_passport == <<"p", "a", "s", "s", "p", "o", "r", "t">>

S_name == <<"n", "a", "m", "e">>

S_email == <<"e", "m", "a", "i", "l">>

S_address == <<"a", "d", "d", "r", "e", "s", "s">>

S_ip_address == <<"i", "p", "_", "a", "d", "d", "r", "e", "s", "s">>

S_device_id == <<"d", "e", "v", "i", "c", "e", "_", "i", "d">>

S_REDACTED == <<"[", "R", "E", "D", "A", "C", "T", "E", "D", "_">>

PyTrue == <<"T", "r", "u", "e">>

PyFalse == <<"F", "a", "l", "s", "e">>

PyNone == <<"N", "o", "n", "e">>

TrueLit == <<"t", "r", "u", "e">>

FalseLit == <<"f", "a", "l", "s", "e">>

NullLit == <<"n", "u", "l", "l">>

---------------------------------------------------------------------------
(* Values.  A field value is [t, s]: t its Python type, s its text: the    *)
(* characters of a str, the decimal digits of an int (with its sign), the  *)
(* JSON literal of a bool, nothing for None.                               *)

StrV(s) == [t |-> "str", s |-> s]

IntV(s) == [t |-> "int", s |-> s]

BoolV(b) == [t |-> "bool", s |-> IF b THEN TrueLit ELSE FalseLit]

NoneV == [t |-> "NoneType", s |-> <<>>]

\* isinstance(value, str)
IsStr(v) == v.t = "str"

\* str(value)
Str(v) ==
    CASE v.t = "str" -> v.s
      [] v.t = "int" -> v.s
      [] v.t = "bool" -> IF v.s = TrueLit THEN PyTrue ELSE PyFalse
      [] OTHER -> PyNone

---------------------------------------------------------------------------
(* REGEX_PATTERNS, COMBINATORIAL_KEYS and EMAIL_REGEX.                      *)

AadharDigits == 12

PhoneDigits == 10

PassportDigits == 7

\* The keys of REGEX_PATTERNS.
PiiTypes == {S_aadhar, S_phone, S_passport}

AllDigits(s, from, to) == \A j \in from..to : IsDigit(s[j])

\* re.compile(r'\b\d{n}\b').search(s)
DigitRunSearch(s, n) ==
    \E i \in 1..(Len(s) - n + 1) :
        /\ WordBoundary(s, i - 1)
        /\ AllDigits(s, i, i + n - 1)
        /\ WordBoundary(s, i + n - 1)

\* re.compile(r'\b[A-Z][0-9]{7}\b').search(s)
PassportSearch(s) ==
    \E i \in 1..(Len(s) - PassportDigits) :
        /\ WordBoundary(s, i - 1)
        /\ IsUpper(s[i])
        /\ AllDigits(s, i + 1, i + PassportDigits)
        /\ WordBoundary(s, i + PassportDigits)

\* REGEX_PATTERNS[pii_type].search(s)
PatternSearch(pii_type, s) ==
    CASE pii_type = S_aadhar -> DigitRunSearch(s, AadharDigits)
      [] pii_type = S_phone -> DigitRunSearch(s, PhoneDigits)
      [] pii_type = S_passport -> PassportSearch(s)
      [] OTHER -> FALSE

COMBINATORIAL_KEYS == {S_name, S_email, S_address, S_ip_address, S_device_id}

\* [A-Za-z0-9._%+-]
IsLocalChar(c) ==
    IsLower(c) \/ IsUpper(c) \/ IsDigit(c) \/ c \in {".", "_", "%", "+", "-"}

\* [A-Za-z0-9.-]
IsDomainChar(c) == IsLower(c) \/ IsUpper(c) \/ IsDigit(c) \/ c \in {".", "-"}

\* [A-Z|a-z]
IsTldChar(c) == IsLower(c) \/ IsUpper(c) \/ c = "|"

MinTld == 2

\* EMAIL_REGEX.match(s): a match that starts at offset 0; at marks the "@",
\* dot the "\." and end the last character of the top-level segment.
EmailMatch(s) ==
    \E at \in 2..Len(s) : \E dot \in (at + 2)..Len(s) :
      \E end \in (dot + MinTld)..Len(s) :
        /\ WordBoundary(s, 0)
        /\ \A j \in 1..(at - 1) : IsLocalChar(s[j])
        /\ s[at] = "@"
        /\ \A j \in (at + 1)..(dot - 1) : IsDomainChar(s[j])
        /\ s[dot] = "."
        /\ \A j \in (dot + 1)..end : IsTldChar(s[j])
        /\ WordBoundary(s, end)

---------------------------------------------------------------------------
(* mask_pii_value.                                                         *)

PhoneLen == 10

AadharLen == 12

PhoneKeep == 2

PhoneMask == 6

AadharMask == 8

AadharKeep == 4

\* str.split() with no argument: the maximal runs of non-whitespace; cur is
\* the run being read at offset i, acc the runs already closed.
RECURSIVE SplitFrom(_, _, _, _)
SplitFrom(s, i, cur, acc) ==
    LET closed == IF cur = <<>> THEN acc ELSE Append(acc, cur)
    IN IF i > Len(s) THEN closed
       ELSE IF IsSpace(s[i]) THEN SplitFrom(s, i + 1, <<>>, closed)
       ELSE SplitFrom(s, i + 1, Append(cur, s[i]), acc)

Split(s) == SplitFrom(s, 1, <<>>, <<>>)

\* value[-n:]
Tail_(s, n) == SubSeq(s, Len(s) - n + 1, Len(s))

\* f"{part[0]}{'X'*(len(part)-1)}"
MaskedPart(part) == <<part[1]>> \o Rep("X", Len(part) - 1)

\* f"[REDACTED_{key.upper()}]"
GenericMask(k) == S_REDACTED \o Upper(k) \o <<"]">>

\* A masker that gates the phone rule on the fragment, not on the whole key.
MaskPiiValueLoose(k, v) ==
    LET text == Str(v)
        parts == Split(text)
    IN IF Contains(k, S_phone) /\ Len(text) = PhoneLen
         THEN SubSeq(text, 1, PhoneKeep) \o Rep("X", PhoneMask)
                \o Tail_(text, PhoneKeep)
       ELSE IF k = S_aadhar /\ Len(text) = AadharLen
         THEN Rep("X", AadharMask) \o Tail_(text, AadharKeep)
       ELSE IF k = S_name /\ Len(parts) > 1
         THEN MaskedPart(parts[1]) \o <<" ">> \o MaskedPart(parts[Len(parts)])
       ELSE GenericMask(k)

\* A masker that takes the second part of a name where the code takes the last.
MaskPiiValueSecond(k, v) ==
    LET text == Str(v)
        parts == Split(text)
    IN IF k = S_phone /\ Len(text) = PhoneLen
         THEN SubSeq(text, 1, PhoneKeep) \o Rep("X", PhoneMask)
                \o Tail_(text, PhoneKeep)
       ELSE IF k = S_aadhar /\ Len(text) = AadharLen
         THEN Rep("X", AadharMask) \o Tail_(text, AadharKeep)
       ELSE IF k = S_name /\ Len(parts) > 1
         THEN MaskedPart(parts[1]) \o <<" ">> \o MaskedPart(parts[2])
       ELSE GenericMask(k)

\* mask_pii_value(key, value)
MaskPiiValue(k, v) ==
    LET text == Str(v)
        parts == Split(text)
    IN IF k = S_phone /\ Len(text) = PhoneLen
         THEN SubSeq(text, 1, PhoneKeep) \o Rep("X", PhoneMask)
                \o Tail_(text, PhoneKeep)
       ELSE IF k = S_aadhar /\ Len(text) = AadharLen
         THEN Rep("X", AadharMask) \o Tail_(text, AadharKeep)
       ELSE IF k = S_name /\ Len(parts) > 1
         THEN MaskedPart(parts[1]) \o <<" ">> \o MaskedPart(parts[Len(parts)])
       ELSE GenericMask(k)

---------------------------------------------------------------------------
(* process_record.  A dict is the sequence of its items [k, v] in          *)
(* insertion order, with distinct keys.                                    *)

Keys(d) == {d[i].k : i \in 1..Len(d)}

\* data_dict[k]
Get(d, k) == d[CHOOSE i \in 1..Len(d) : d[i].k = k].v

\* A shape test that forgets which fragment the key holds.
ShapeHitAnyPattern(k, v) ==
    /\ IsStr(v)
    /\ \E pii_type \in PiiTypes : Contains(k, pii_type)
    /\ \E pii_type \in PiiTypes : PatternSearch(pii_type, v.s)

\* The inner loop over REGEX_PATTERNS.items() for one item of the record.
ShapeHit(k, v) ==
    /\ IsStr(v)
    /\ \E pii_type \in PiiTypes :
          Contains(k, pii_type) /\ PatternSearch(pii_type, v.s)

\* One item of the first loop flags its key.
StandaloneHit(k, v) == k = S_upi_id \/ ShapeHit(k, v)

\* keys_to_redact after the first loop.
StandaloneKeys(d) ==
    {d[i].k : i \in {j \in 1..Len(d) : StandaloneHit(d[j].k, d[j].v)}}

\* is_pii after the first loop.
StandaloneFound(d) == \E i \in 1..Len(d) : StandaloneHit(d[i].k, d[i].v)

\* One key of the second loop is appended to combinatorial_keys_found.
CombinatorialHit(k, v) ==
    /\ k \in COMBINATORIAL_KEYS
    /\ k = S_email => (IsStr(v) /\ EmailMatch(v.s))

\* A second loop that appends the email key whatever its value.
CombinatorialKeysFoundNoFilter(d) ==
    LET Test(item) == item.k \in COMBINATORIAL_KEYS
        found == SelectSeq(d, Test)
    IN [i \in 1..Len(found) |-> found[i].k]

\* combinatorial_keys_found after the second loop.
CombinatorialKeysFound(d) ==
    LET Test(item) == CombinatorialHit(item.k, item.v)
        found == SelectSeq(d, Test)
    IN [i \in 1..Len(found) |-> found[i].k]

MinCombinatorial == 2

\* A flag that the combinatorial rule forgets to set.
IsPiiStandaloneOnly(d) == StandaloneFound(d)

\* is_pii at the return.
IsPii(d) ==
    \/ StandaloneFound(d)
    \/ Len(CombinatorialKeysFound(d)) >= MinCombinatorial

\* keys_to_redact at the return.
KeysToRedact(d) ==
    StandaloneKeys(d) \cup
      (IF Len(CombinatorialKeysFound(d)) >= MinCombinatorial
         THEN Range(CombinatorialKeysFound(d)) ELSE {})

\* A redaction that masks every field of a PII record.
RedactedDictAll(d) ==
    IF IsPii(d)
      THEN [i \in 1..Len(d) |->
              [k |-> d[i].k, v |-> StrV(MaskPiiValue(d[i].k, d[i].v))]]
      ELSE d

\* redacted_dict at the return.
RedactedDict(d) ==
    IF IsPii(d)
      THEN [i \in 1..Len(d) |->
              IF d[i].k \in KeysToRedact(d)
                THEN [k |-> d[i].k, v |-> StrV(MaskPiiValue(d[i].k, d[i].v))]
                ELSE d[i]]
      ELSE d

---------------------------------------------------------------------------
(* The inputs of the function-level runs.                                  *)

D10 == <<"9", "8", "7", "6", "5", "4", "3", "2", "1", "0">>

D12 == <<"1", "2", "3", "4", "5", "6", "7", "8", "9", "0", "1", "2">>

P8 == <<"A", "1", "2", "3", "4", "5", "6", "7">>

LowerP8 == <<"a", "1", "2", "3", "4", "5", "6", "7">>

RahulKumar == <<"R", "a", "h", "u", "l", " ", "K", "u", "m", "a", "r">>

Rahul == <<"R", "a", "h", "u", "l">>

RahulSpaced == <<" ", "R", "a", "h", "u", "l", " ", " ", "K", "u", "m", "a", "r", " ">>

ThreeParts == <<"R", "a", "h", "u", "l", " ", "K", " ", "K", "u", "m", "a", "r">>

FourParts == <<"A", " ", "B", "c", " ", "D", " ", "E", "f", "g">>

GoodEmail == <<"r", "@", "x", ".", "c", "o", "m">>

BadEmail == <<"n", "o", "t", "-", "a", "n", "-", "e", "m", "a", "i", "l">>

PrefixEmail == <<"r", "@", "x", ".", "c", "o", "m", " ", "a", "n", "d", " ", "m", "o", "r", "e">>

InnerEmail == <<"s", "e", "e", " ", "r", "@", "x", ".", "c", "o", "m">>

ShortTld == <<"r", "@", "x", ".", "c">>

UnderEmail == <<"r", "@", "x", ".", "c", "o", "m", "_">>

PipeEmail == <<"r", "@", "x", ".", "c", "o", "|", "m">>

DotEmail == <<".", "r", "@", "x", ".", "c", "o", "m">>

K_home_phone_number == <<"h", "o", "m", "e", "_", "p", "h", "o", "n", "e", "_", "n", "u", "m", "b", "e", "r">>

K_Phone == <<"P", "h", "o", "n", "e">>

K_phone_digits == <<"p", "h", "o", "n", "e", "-", "9", "8", "7", "6", "5", "4", "3", "2", "1", "0">>

K_aadhar_phone == <<"a", "a", "d", "h", "a", "r", "_", "p", "h", "o", "n", "e">>

K_note == <<"n", "o", "t", "e">>

K_username == <<"u", "s", "e", "r", "n", "a", "m", "e">>

\* What may stand before and after a token inside a value.
Pads == {<<>>, <<" ">>, <<"_">>, <<"x">>, <<"1">>, <<"-">>}

Cores == {D10, D12, P8, LowerP8}

ShapeTexts == {a \o c \o b : a \in Pads, c \in Cores, b \in Pads}

OtherTexts ==
    {<<>>, <<" ">>, <<"x">>, RahulKumar, Rahul, RahulSpaced, ThreeParts,
     FourParts, GoodEmail, BadEmail, PrefixEmail, InnerEmail, ShortTld,
     UnderEmail, PipeEmail, DotEmail}

NonStrValues ==
    {IntV(D10), IntV(D12), IntV(<<"-", "5">>), BoolV(TRUE), BoolV(FALSE), NoneV}

Values == {StrV(s) : s \in ShapeTexts \cup OtherTexts} \cup NonStrValues

FieldNames ==
    {S_upi_id, S_phone, S_aadhar, S_passport, S_name, S_email, S_address,
     S_ip_address, S_device_id, K_home_phone_number, K_Phone, K_phone_digits,
     K_aadhar_phone, K_note, K_username}

Item(k, v) == [k |-> k, v |-> v]

\* The records of at most one field.
SingleRecords == {<<>>} \cup {<<Item(k, v)>> : k \in FieldNames, v \in Values}

\* The items the records of several fields are built from.
ComboItems ==
    <<Item(S_name, StrV(RahulKumar)), Item(S_name, StrV(ThreeParts)),
      Item(S_email, StrV(GoodEmail)), Item(S_email, StrV(BadEmail)),
      Item(S_email, StrV(InnerEmail)), Item(S_email, IntV(D10)),
      Item(S_address, StrV(<<"x">>)), Item(S_ip_address, StrV(D10)),
      Item(S_device_id, BoolV(TRUE)), Item(S_upi_id, StrV(<<"x">>)),
      Item(S_phone, StrV(D10)), Item(S_phone, IntV(D10)),
      Item(S_aadhar, StrV(D12)), Item(S_passport, StrV(P8)),
      Item(K_phone_digits, StrV(D10)), Item(K_note, StrV(D10)),
      Item(K_username, StrV(Rahul))>>

MaxFields == 3

\* The items of ComboItems chosen by the index set S, in index order.
RECURSIVE Chosen(_)
Chosen(S) ==
    IF S = {} THEN <<>>
    ELSE LET m == CHOOSE i \in S : \A j \in S : i <= j
         IN <<ComboItems[m]>> \o Chosen(S \ {m})

Reverse(s) == [i \in 1..Len(s) |-> s[Len(s) + 1 - i]]

DistinctKeys(d) == \A i, j \in 1..Len(d) : d[i].k = d[j].k => i = j

ComboRecords ==
    LET picks == {S \in SUBSET (1..Len(ComboItems)) :
                    /\ Cardinality(S) >= 2
                    /\ Cardinality(S) <= MaxFields
                    /\ DistinctKeys(Chosen(S))}
    IN {Chosen(S) : S \in picks} \cup {Reverse(Chosen(S)) : S \in picks}

Records == SingleRecords \cup ComboRecords

---------------------------------------------------------------------------
(* The function-level runs: one call of process_record on a record, or one *)
(* call of mask_pii_value on a key and a value.                            *)

MainIdle ==
    /\ input_exists = FALSE
    /\ columns = {}
    /\ rows = <<>>
    /\ next_row = 1
    /\ output = <<>>
    /\ status = "idle"

InitProcessRecord ==
    /\ pc = "process_record"
    /\ data_dict \in Records
    /\ is_pii = FALSE
    /\ redacted_dict = data_dict
    /\ keys_to_redact = {}
    /\ key = <<>>
    /\ value = NoneV
    /\ masked = <<>>

InitMaskPiiValue ==
    /\ pc = "mask_pii_value"
    /\ data_dict = <<>>
    /\ is_pii = FALSE
    /\ redacted_dict = <<>>
    /\ keys_to_redact = {}
    /\ key \in FieldNames
    /\ value \in Values
    /\ masked = <<>>

Init == (InitProcessRecord \/ InitMaskPiiValue) /\ MainIdle

\* process_record(data_dict), from its entry to its return.
ProcessRecord ==
    /\ pc = "process_record"
    /\ is_pii' = IsPii(data_dict)
    /\ keys_to_redact' = KeysToRedact(data_dict)
    /\ redacted_dict' = RedactedDict(data_dict)
    /\ pc' = "returned"
    /\ UNCHANGED <<data_dict, key, value, masked, mainVars>>

\* mask_pii_value(key, value), from its entry to its return.
MaskCall ==
    /\ pc = "mask_pii_value"
    /\ masked' = MaskPiiValue(key, value)
    /\ pc' = "masked"
    /\ UNCHANGED <<data_dict, is_pii, redacted_dict, keys_to_redact, key,
                   value, mainVars>>

Next == ProcessRecord \/ MaskCall

Spec == Init /\ [][Next]_vars

---------------------------------------------------------------------------
(* Properties of process_record and mask_pii_value.                        *)

Returned == pc = "returned"

Masked == pc = "masked"

\* The value the record gives field k.
FieldValue(k) == Get(data_dict, k)

\* Field i of the returned record holds the mask of field i of the argument.
IsMaskedAt(i) ==
    redacted_dict[i] =
      Item(data_dict[i].k, StrV(MaskPiiValue(data_dict[i].k, data_dict[i].v)))

\* Rule 2 on the textual form of a value: the key holds a fragment and the
\* text holds a token of that fragment's shape.
TextShapeMatch(k, v) ==
    \E pii_type \in PiiTypes :
        Contains(k, pii_type) /\ PatternSearch(pii_type, Str(v))

\* The qualifying quasi-identifiers of the record: the quasi-identifier
\* fields, the email field only with a text value that begins as an email.
QualifyingQuasi ==
    {k \in Keys(data_dict) \cap COMBINATORIAL_KEYS :
        k = S_email => (IsStr(FieldValue(k)) /\ EmailMatch(FieldValue(k).s))}

\* C1: every field whose name holds a fragment of REGEX_PATTERNS and whose
\* value, normalised to text, holds a token of that fragment's shape is
\* flagged, makes the record PII and is masked in the returned record; a
\* number is treated as its text.
C1_Rule2OnNormalisedText ==
    Returned =>
      \A i \in 1..Len(data_dict) :
        TextShapeMatch(data_dict[i].k, data_dict[i].v) =>
          /\ data_dict[i].k \in keys_to_redact
          /\ is_pii
          /\ IsMaskedAt(i)

\* C2: with Q the qualifying quasi-identifiers, two or more of them are all
\* flagged and make the record PII; with at most one, Rule 3 flags nothing,
\* and a record without a Rule 1 or Rule 2 trigger is not PII and is
\* returned unmodified.
C2_CombinatorialRule ==
    Returned =>
      /\ Cardinality(QualifyingQuasi) >= 2 =>
            (QualifyingQuasi \subseteq keys_to_redact /\ is_pii)
      /\ Cardinality(QualifyingQuasi) <= 1 =>
            /\ keys_to_redact =
                 {k \in Keys(data_dict) :
                    k = S_upi_id \/ (IsStr(FieldValue(k))
                                       /\ TextShapeMatch(k, FieldValue(k)))}
            /\ keys_to_redact = {} => (~is_pii /\ redacted_dict = data_dict)

\* C2 witness: two quasi-identifiers qualify and are flagged while an email
\* field that fails the shape is present and is left out.
C2_Witness ==
    /\ Returned
    /\ Cardinality(QualifyingQuasi) >= 2
    /\ S_email \in Keys(data_dict) \ QualifyingQuasi
    /\ S_email \notin keys_to_redact
    /\ is_pii

\* C3: a field is flagged, and a field's value is changed, only if its name
\* is upi_id, or its name holds a fragment whose own shape its text value
\* matches, or it is one of two or more qualifying quasi-identifiers.
C3_NameGated ==
    Returned =>
      \A i \in 1..Len(data_dict) :
        LET k == data_dict[i].k
            v == data_dict[i].v
        IN (k \in keys_to_redact \/ redacted_dict[i] # data_dict[i]) =>
             \/ k = S_upi_id
             \/ IsStr(v) /\ TextShapeMatch(k, v)
             \/ k \in QualifyingQuasi /\ Cardinality(QualifyingQuasi) >= 2

\* C3 witness: a 10-digit value is flagged under phone and the same value
\* is not flagged under a name that holds no fragment.
C3_Witness ==
    /\ Returned
    /\ S_phone \in keys_to_redact
    /\ K_note \in Keys(data_dict) \ keys_to_redact
    /\ FieldValue(K_note) = StrV(D10)
    /\ FieldValue(S_phone) = StrV(D10)

\* C4: is_pii is true exactly when keys_to_redact is not empty, and with no
\* flagged key the returned record equals the argument.
C4_FlagIffFlaggedKeys ==
    Returned =>
      /\ is_pii <=> keys_to_redact # {}
      /\ keys_to_redact = {} => redacted_dict = data_dict

\* C4 witness: a record made PII by the combinatorial rule alone.
C4_Witness ==
    /\ Returned
    /\ is_pii
    /\ keys_to_redact # {}
    /\ \A k \in Keys(data_dict) :
          k # S_upi_id /\ ~TextShapeMatch(k, FieldValue(k))

\* C5: the returned record has the field names of the argument, in the
\* same order; a flagged field holds mask_pii_value of its name and its
\* input value, every other field holds its input value.
C5_RedactionFrame ==
    Returned =>
      /\ Len(redacted_dict) = Len(data_dict)
      /\ \A i \in 1..Len(data_dict) :
           /\ redacted_dict[i].k = data_dict[i].k
           /\ IF data_dict[i].k \in keys_to_redact
                THEN IsMaskedAt(i)
                ELSE redacted_dict[i].v = data_dict[i].v

\* C5 witness: a record with a masked field and with a field that is not
\* flagged and keeps a value that is not text.
C5_Witness ==
    /\ Returned
    /\ \E i, j \in 1..Len(data_dict) :
         /\ data_dict[i].k \in keys_to_redact
         /\ redacted_dict[i].v # data_dict[i].v
         /\ data_dict[j].k \notin keys_to_redact
         /\ ~IsStr(redacted_dict[j].v)

SixX == <<"X", "X", "X", "X", "X", "X">>

EightX == <<"X", "X", "X", "X", "X", "X", "X", "X">>

\* C6: on the text of the value, mask_pii_value keeps the first and last
\* two characters around XXXXXX for the key phone and 10 characters, keeps
\* the last four after XXXXXXXX for the key aadhar and 12 characters, and
\* otherwise, unless the key is name with two or more parts, returns
\* [REDACTED_<KEY>]; so does a key that only holds the fragment phone.  The
\* result is a non-empty text for every key and value.
C6_MaskerPolicy ==
    Masked =>
      LET text == Str(value)
          n == Len(text)
      IN /\ (key = S_phone /\ n = 10) =>
               masked = <<text[1], text[2]>> \o SixX \o <<text[9], text[10]>>
         /\ (key = S_aadhar /\ n = 12) =>
               masked = EightX \o <<text[9], text[10], text[11], text[12]>>
         /\ ( /\ ~(key = S_phone /\ n = 10)
              /\ ~(key = S_aadhar /\ n = 12)
              /\ ~(key = S_name /\ Len(Split(text)) >= 2) ) =>
               masked = S_REDACTED \o Upper(key) \o <<"]">>
         /\ DOMAIN masked = 1..Len(masked)
         /\ Len(masked) > 0

\* C6 witness: the key phone with the number 9876543210, masked as its
\* text is.
C6_Witness ==
    /\ Masked
    /\ key = S_phone
    /\ value = IntV(D10)
    /\ masked = <<"9", "8">> \o SixX \o <<"1", "0">>

\* The mask of one word: its first character, then an X for every other.
WordMask(part) == <<part[1]>> \o [i \in 1..(Len(part) - 1) |-> "X"]

\* The words joined by single spaces.
RECURSIVE JoinWords(_)
JoinWords(words) ==
    IF Len(words) = 0 THEN <<>>
    ELSE IF Len(words) = 1 THEN words[1]
    ELSE words[1] \o <<" ">> \o JoinWords(Tail(words))

\* C7 as stated: a name of two or more parts is masked word by word, one
\* masked word for each part of the input.
C7_OneWordPerPart ==
    (Masked /\ key = S_name /\ Len(Split(Str(value))) >= 2) =>
      LET parts == Split(Str(value))
      IN /\ masked = JoinWords([i \in 1..Len(parts) |-> WordMask(parts[i])])
         /\ Len(Split(masked)) = Len(parts)

\* C7 amended: a name of two or more parts is masked as two words, the
\* mask of its first part and the mask of its last part, joined by one
\* space; the parts between them are dropped.
C7_FirstAndLastPart ==
    (Masked /\ key = S_name /\ Len(Split(Str(value))) >= 2) =>
      LET parts == Split(Str(value))
      IN /\ masked = WordMask(parts[1]) \o <<" ">> \o WordMask(parts[Len(parts)])
         /\ Len(Split(masked)) = 2

\* C7 witness: a name of three or more parts has been masked.
C7_Witness ==
    /\ Masked
    /\ key = S_name
    /\ Len(Split(Str(value))) >= 3
    /\ Len(Split(masked)) = 2

\* C8: no field that process_record masked holds, in the returned record,
\* a value that Rule 2 flags under that field's name.
C8_NoShapeReintroduced ==
    Returned =>
      \A i \in 1..Len(data_dict) :
        data_dict[i].k \in keys_to_redact =>
          ~ShapeHit(redacted_dict[i].k, redacted_dict[i].v)

---------------------------------------------------------------------------
(* json.loads and json.dumps, on texts without backslashes, fractions,     *)
(* exponents and nested containers.  A decoding result is [ok, kind,       *)
(* items, v, next]: ok whether the text decodes, kind the Python type of   *)
(* the decoded value, items the items of a dict, v a scalar, next the      *)
(* offset after the value.                                                 *)

Quote == "\""

Failed == [ok |-> FALSE, kind |-> "error", items |-> <<>>, v |-> NoneV, next |-> 0]

Scalar(v, next) ==
    [ok |-> TRUE, kind |-> v.t, items |-> <<>>, v |-> v, next |-> next]

Container(kind, items, next) ==
    [ok |-> TRUE, kind |-> kind, items |-> items, v |-> NoneV, next |-> next]

\* s[p:].startswith(lit)
StartsAt(s, p, lit) ==
    p + Len(lit) - 1 <= Len(s) /\ SubSeq(s, p, p + Len(lit) - 1) = lit

\* The offset of the first character at or after p that is not whitespace.
RECURSIVE SkipWs(_, _)
SkipWs(s, p) == IF p <= Len(s) /\ IsSpace(s[p]) THEN SkipWs(s, p + 1) ELSE p

\* The offset of the first character at or after p that is not a digit.
RECURSIVE SkipDigits(_, _)
SkipDigits(s, p) ==
    IF p <= Len(s) /\ IsDigit(s[p]) THEN SkipDigits(s, p + 1) ELSE p

\* The offset of the first quote at or after p, Len(s) + 1 if there is none.
RECURSIVE FindQuote(_, _)
FindQuote(s, p) ==
    IF p <= Len(s) /\ s[p] # Quote THEN FindQuote(s, p + 1) ELSE p

\* A string whose opening quote is at p.
ParseString(s, p) ==
    LET q == FindQuote(s, p + 1)
    IN IF q > Len(s) THEN Failed
       ELSE Scalar(StrV(SubSeq(s, p + 1, q - 1)), q + 1)

\* An integer at p: -?(0|[1-9][0-9]*), decoded by int().
ParseNumber(s, p) ==
    LET neg == p <= Len(s) /\ s[p] = "-"
        first == IF neg THEN p + 1 ELSE p
        stop == IF first <= Len(s) /\ s[first] = "0"
                  THEN first + 1 ELSE SkipDigits(s, first)
        digits == SubSeq(s, first, stop - 1)
    IN IF stop = first THEN Failed
       ELSE Scalar(IntV(IF neg /\ digits # <<"0">> THEN <<"-">> \o digits
                        ELSE digits), stop)

\* A string, a number, true, false or null at p.
ParseScalar(s, p) ==
    IF p > Len(s) THEN Failed
    ELSE IF s[p] = Quote THEN ParseString(s, p)
    ELSE IF StartsAt(s, p, TrueLit) THEN Scalar(BoolV(TRUE), p + Len(TrueLit))
    ELSE IF StartsAt(s, p, FalseLit) THEN Scalar(BoolV(FALSE), p + Len(FalseLit))
    ELSE IF StartsAt(s, p, NullLit) THEN Scalar(NoneV, p + Len(NullLit))
    ELSE ParseNumber(s, p)

\* d[k] = v on a dict: a key already present keeps its place.
Put(d, k, v) ==
    IF k \in Keys(d)
      THEN [i \in 1..Len(d) |-> IF d[i].k = k THEN Item(k, v) ELSE d[i]]
      ELSE Append(d, Item(k, v))

\* The members of an object from the key at p on; acc holds those read.
RECURSIVE ParseMembers(_, _, _)
ParseMembers(s, p, acc) ==
    IF p > Len(s) \/ s[p] # Quote THEN Failed
    ELSE LET name == ParseString(s, p)
             colon == SkipWs(s, name.next)
             val == ParseScalar(s, SkipWs(s, colon + 1))
             after == SkipWs(s, val.next)
         IN IF ~name.ok \/ colon > Len(s) \/ s[colon] # ":" THEN Failed
            ELSE IF ~val.ok \/ after > Len(s) THEN Failed
            ELSE IF s[after] = "}"
              THEN Container("dict", Put(acc, name.v.s, val.v), after + 1)
            ELSE IF s[after] = ","
              THEN ParseMembers(s, SkipWs(s, after + 1),
                                Put(acc, name.v.s, val.v))
            ELSE Failed

\* An object whose "{" is at p.
ParseObject(s, p) ==
    LET q == SkipWs(s, p + 1)
    IN IF q <= Len(s) /\ s[q] = "}" THEN Container("dict", <<>>, q + 1)
       ELSE ParseMembers(s, q, <<>>)

\* The elements of an array from the element at p on; they are read and not
\* kept.
RECURSIVE ParseElements(_, _)
ParseElements(s, p) ==
    LET val == ParseScalar(s, p)
        after == SkipWs(s, val.next)
    IN IF ~val.ok \/ after > Len(s) THEN Failed
       ELSE IF s[after] = "]" THEN Container("list", <<>>, after + 1)
       ELSE IF s[after] = "," THEN ParseElements(s, SkipWs(s, after + 1))
       ELSE Failed

\* An array whose "[" is at p.
ParseArray(s, p) ==
    LET q == SkipWs(s, p + 1)
    IN IF q <= Len(s) /\ s[q] = "]" THEN Container("list", <<>>, q + 1)
       ELSE ParseElements(s, q)

\* json.loads(s); ok is FALSE where it raises JSONDecodeError.
Loads(s) ==
    LET p == SkipWs(s, 1)
        val == IF p > Len(s) THEN Failed
               ELSE IF s[p] = "{" THEN ParseObject(s, p)
               ELSE IF s[p] = "[" THEN ParseArray(s, p)
               ELSE ParseScalar(s, p)
    IN IF val.ok /\ SkipWs(s, val.next) > Len(s) THEN val ELSE Failed

\* One character of a string as json.dumps writes it.
EscapeChar(c) == IF c \in {Quote, "\\"} THEN <<"\\", c>> ELSE <<c>>

RECURSIVE Escape(_)
Escape(s) == IF s = <<>> THEN <<>> ELSE EscapeChar(Head(s)) \o Escape(Tail(s))

\* json.dumps of a scalar.
DumpValue(v) ==
    CASE v.t = "str" -> <<Quote>> \o Escape(v.s) \o <<Quote>>
      [] v.t = "NoneType" -> NullLit
      [] OTHER -> v.s

\* The items of a dict as json.dumps writes them, ", " between them.
RECURSIVE DumpItems(_)
DumpItems(d) ==
    IF d = <<>> THEN <<>>
    ELSE <<Quote>> \o Escape(d[1].k) \o <<Quote, ":", " ">> \o DumpValue(d[1].v)
           \o (IF Len(d) > 1 THEN <<",", " ">> ELSE <<>>) \o DumpItems(Tail(d))

\* json.dumps(d) of a dict.
Dumps(d) == <<"{">> \o DumpItems(d) \o <<"}">>

\* data_json_str.replace('""', '"'): from the left, without overlaps.
RECURSIVE ReplaceDoubledQuotes(_)
ReplaceDoubledQuotes(s) ==
    IF Len(s) >= 2 /\ s[1] = Quote /\ s[2] = Quote
      THEN <<Quote>> \o ReplaceDoubledQuotes(SubSeq(s, 3, Len(s)))
    ELSE IF s = <<>> THEN <<>>
    ELSE <<s[1]>> \o ReplaceDoubledQuotes(Tail(s))

---------------------------------------------------------------------------
(* main.  A row of csv.DictReader is a function from the columns of the    *)
(* header to cells; the cell of a column that a short line does not reach  *)
(* is None.                                                                *)

EmptyObjectText == <<"{", "}">>

\* row.get(col, default)
RowGet(row, col, default) == IF col \in DOMAIN row THEN row[col] ELSE default

\* data_json_str
DataJsonStr(row) == RowGet(row, "data_json", StrV(EmptyObjectText))

\* data after the inner try: the decoded value, {} on JSONDecodeError.
Decoded(row) ==
    LET cleaned_json_str == ReplaceDoubledQuotes(DataJsonStr(row).s)
        loaded == Loads(cleaned_json_str)
    IN IF loaded.ok THEN loaded ELSE Container("dict", <<>>, 0)

\* The loop body raises an exception that the inner try does not catch:
\* None has no replace(), and process_record needs the copy() and items()
\* of a dict.
RowRaises(row) == ~IsStr(DataJsonStr(row)) \/ Decoded(row).kind # "dict"

\* The row handed to writer.writerow.
OutputRow(row) ==
    [record_id |-> RowGet(row, "record_id", NoneV),
     redacted_data_json |-> Dumps(RedactedDict(Decoded(row).items)),
     is_pii |-> IsPii(Decoded(row).items)]

\* The well-formed objects among the input texts, as json.dumps writes them.
JsonRecords ==
    {<<>>,
     <<Item(S_upi_id, StrV(<<"x">>))>>,
     <<Item(S_upi_id, StrV(<<>>))>>,
     <<Item(S_phone, StrV(D10))>>,
     <<Item(S_phone, IntV(D10))>>,
     <<Item(S_name, StrV(RahulKumar))>>,
     <<Item(S_name, StrV(RahulKumar)), Item(S_email, StrV(GoodEmail))>>,
     <<Item(S_name, StrV(RahulKumar)), Item(S_email, StrV(<<>>))>>,
     <<Item(S_upi_id, StrV(<<"x">>)), Item(K_note, StrV(<<>>))>>,
     <<Item(K_note, BoolV(TRUE))>>,
     <<Item(K_note, NoneV)>>,
     <<Item(<<>>, StrV(<<"x">>))>>}

SpacedObjectText ==
    <<" ", "{", " ", Quote, "u", "p", "i", "_", "i", "d", Quote, " ", ":", " ", Quote, "x", Quote, " ", "}", " ">>

RepeatedKeyText ==
    <<"{", Quote, "a", Quote, ":", "1", ",", Quote, "b", Quote, ":", "2", ",", Quote, "a", Quote, ":", "-", "0", "}">>

ObjectTexts == {Dumps(d) : d \in JsonRecords} \cup {SpacedObjectText, RepeatedKeyText}

\* Texts that decode to a value that is not an object.
NonObjectTexts ==
    {<<"[", "]">>, <<"[", "1", ",", " ", "2", "]">>, <<"5">>, NullLit, TrueLit,
     <<Quote, "x", Quote>>}

\* Texts that do not decode.
MalformedTexts ==
    {<<>>, <<"{">>, <<"n", "o", "p", "e">>,
     <<"{", Quote, "a", Quote, ":", " ", "1", ",", "}">>,
     <<"{", Quote, "a", Quote, " ", "1", "}">>,
     <<"{", Quote, "a", Quote, ":", " ", "0", "1", "}">>,
     <<"{", "}", " ", "x">>,
     <<"{", "a", ":", " ", "1", "}">>}

\* The cells of the data_json column.
DataJsonCells ==
    {StrV(s) : s \in ObjectTexts \cup NonObjectTexts \cup MalformedTexts}
      \cup {NoneV}

Headers == {{"record_id", "data_json"}, {"record_id"}}

MaxRows == 2

\* The row at line i: its record_id is the digit i.
MakeRow(header, i, cell) ==
    [c \in header |-> IF c = "record_id" THEN StrV(<<DigitSeq[i + 1]>>) ELSE cell]

CoreIdle ==
    /\ pc = "main"
    /\ data_dict = <<>>
    /\ is_pii = FALSE
    /\ redacted_dict = <<>>
    /\ keys_to_redact = {}
    /\ key = <<>>
    /\ value = NoneV
    /\ masked = <<>>

InitMain ==
    /\ CoreIdle
    /\ status = "start"
    /\ next_row = 1
    /\ output = <<>>
    /\ input_exists \in BOOLEAN
    /\ IF input_exists
         THEN /\ columns \in Headers
              /\ \E n \in 0..MaxRows : \E cells \in [1..n -> DataJsonCells] :
                    rows = [i \in 1..n |-> MakeRow(columns, i, cells[i])]
         ELSE columns = {} /\ rows = <<>>

\* The with statement opens both files and the header is written.
OpenFiles ==
    /\ status = "start"
    /\ input_exists
    /\ status' = "reading"
    /\ UNCHANGED <<coreVars, input_exists, columns, rows, next_row, output>>

\* open(input_file) raises FileNotFoundError.
FileNotFound ==
    /\ status = "start"
    /\ ~input_exists
    /\ status' = "not_found"
    /\ UNCHANGED <<coreVars, input_exists, columns, rows, next_row, output>>

\* One pass of the loop over the reader that ends in writer.writerow.
ProcessRow ==
    /\ status = "reading"
    /\ next_row <= Len(rows)
    /\ ~RowRaises(rows[next_row])
    /\ data_dict' = Decoded(rows[next_row]).items
    /\ is_pii' = IsPii(data_dict')
    /\ keys_to_redact' = KeysToRedact(data_dict')
    /\ redacted_dict' = RedactedDict(data_dict')
    /\ output' = Append(output, OutputRow(rows[next_row]))
    /\ next_row' = next_row + 1
    /\ UNCHANGED <<pc, key, value, masked, input_exists, columns, rows, status>>

\* One pass of the loop that raises: the outer except Exception reports it
\* and main returns.
RowFails ==
    /\ status = "reading"
    /\ next_row <= Len(rows)
    /\ RowRaises(rows[next_row])
    /\ status' = "error"
    /\ UNCHANGED <<coreVars, input_exists, columns, rows, next_row, output>>

\* The reader is exhausted and main reports the output file.
Finish ==
    /\ status = "reading"
    /\ next_row > Len(rows)
    /\ status' = "complete"
    /\ UNCHANGED <<coreVars, input_exists, columns, rows, next_row, output>>

NextMain == OpenFiles \/ FileNotFound \/ ProcessRow \/ RowFails \/ Finish

SpecMain == InitMain /\ [][NextMain]_vars

---------------------------------------------------------------------------
(* Properties of main.                                                     *)

MainEnded == status \in {"complete", "error"}

\* The text of the data_json cell of row i decodes, as it stands, to an
\* object.
WellFormedObject(i) ==
    /\ "data_json" \in DOMAIN rows[i]
    /\ IsStr(rows[i]["data_json"])
    /\ Loads(rows[i]["data_json"].s).kind = "dict"

\* The text of the data_json cell of row i does not decode.
Undecodable(i) ==
    /\ "data_json" \in DOMAIN rows[i]
    /\ IsStr(rows[i]["data_json"])
    /\ ~Loads(rows[i]["data_json"].s).ok

\* C9: when main ends on an existing input file it has written one output
\* row per input row, in input order, each with that row's record_id; a
\* row whose data_json does not decode is written with is_pii false and
\* the text {}, and the rows after it are written too.
C9_OneOutputRowPerInputRow ==
    (input_exists /\ MainEnded) =>
      /\ Len(output) = Len(rows)
      /\ \A i \in 1..Len(output) :
           /\ output[i].record_id = rows[i]["record_id"]
           /\ Undecodable(i) =>
                (~output[i].is_pii
                   /\ output[i].redacted_data_json = EmptyObjectText)

\* C10: for a row whose data_json is a well-formed object, the mapping main
\* passes to process_record is the mapping the text encodes, and the row
\* written is the redaction of that mapping: with a upi_id field it is
\* written as PII.
C10_FaithfulDecoding ==
    \A i \in 1..Len(output) :
      WellFormedObject(i) =>
        LET encoded == Loads(rows[i]["data_json"].s).items
        IN /\ i = next_row - 1 => data_dict = encoded
           /\ output[i].is_pii = IsPii(encoded)
           /\ output[i].redacted_data_json = Dumps(RedactedDict(encoded))
           /\ S_upi_id \in Keys(encoded) => output[i].is_pii

=============================================================================
